---- MODULE Spec2Model ----
\* Event aggregation and caching engine of the Pokemon TCG meta tracker:
\* the cached query route (api/events/combined), the admin refresh route
\* (api/events/refresh), the uncached query route (api/events) and the file
\* cache library (lib/cache).
\*
\* Strings are sequences of one-character strings.  Coordinates lie on one
\* meridian and are measured in miles of arc, so that the haversine distance
\* of two points is the absolute difference of their latitudes.  Times are
\* milliseconds.
EXTENDS Integers, Sequences, FiniteSets, TLC

\* ------------------------------------------------------------------ bounds

\* the clock advances in steps of WaitMs, at most MaxWaits times
WaitMs == 1800000
MaxWaits == 3
\* single milliseconds the clock may gain between two steps of WaitMs
MaxTicks == 1

\* ------------------------------------------------------------- characters

LowerAlpha ==
  <<"a","b","c","d","e","f","g","h","i","j","k","l","m",
    "n","o","p","q","r","s","t","u","v","w","x","y","z">>
UpperAlpha ==
  <<"A","B","C","D","E","F","G","H","I","J","K","L","M",
    "N","O","P","Q","R","S","T","U","V","W","X","Y","Z">>
DigitChars == <<"0","1","2","3","4","5","6","7","8","9">>

IsLower(c) == c \in {LowerAlpha[i] : i \in 1..26}
IsUpper(c) == c \in {UpperAlpha[i] : i \in 1..26}
IsDigit(c) == c \in {DigitChars[i] : i \in 1..10}
IsSpace(c) == c = " "

UpperOf == [c \in {LowerAlpha[i] : i \in 1..26} |->
              UpperAlpha[CHOOSE i \in 1..26 : LowerAlpha[i] = c]]
LowerOf == [c \in {UpperAlpha[i] : i \in 1..26} |->
              LowerAlpha[CHOOSE i \in 1..26 : UpperAlpha[i] = c]]

toUpperChar(c) == IF c \in DOMAIN UpperOf THEN UpperOf[c] ELSE c
toLowerChar(c) == IF c \in DOMAIN LowerOf THEN LowerOf[c] ELSE c

toUpperCase(s) == [i \in 1..Len(s) |-> toUpperChar(s[i])]
toLowerCase(s) == [i \in 1..Len(s) |-> toLowerChar(s[i])]

\* String.prototype.includes
includes(s, sub) ==
  \E i \in 1..(Len(s) - Len(sub) + 1) : SubSeq(s, i, i + Len(sub) - 1) = sub

\* String.prototype.startsWith
startsWith(s, sub) == Len(s) >= Len(sub) /\ SubSeq(s, 1, Len(sub)) = sub

\* String.prototype.substring(0, n) / slice(0, n)
substring0(s, n) == SubSeq(s, 1, IF Len(s) < n THEN Len(s) ELSE n)

\* s.replace(/[^A-Z0-9]/g, '')
stripNonAlnum(s) == SelectSeq(s, LAMBDA c : IsUpper(c) \/ IsDigit(c))

DigitValue(c) == (CHOOSE i \in 1..10 : DigitChars[i] = c) - 1

\* parseInt of a non-empty string of digits
RECURSIVE parseDigits(_)
parseDigits(s) ==
  IF Len(s) = 0 THEN 0
  ELSE 10 * parseDigits(SubSeq(s, 1, Len(s) - 1)) + DigitValue(s[Len(s)])

\* String.prototype.padStart(2, '0')
padStart2(s) == IF Len(s) < 2 THEN <<"0">> \o s ELSE s

\* Number.prototype.toString for 0 <= n <= 99
numToString(n) ==
  IF n < 10 THEN <<DigitChars[n + 1]>>
  ELSE <<DigitChars[(n \div 10) + 1], DigitChars[(n % 10) + 1]>>

Abs(x) == IF x < 0 THEN -x ELSE x

\* Op(x), and Op(x, y), with the arguments evaluated once, as a local variable
\* of the code is computed once however often it is read
Once(x, Op(_)) == CHOOSE r \in {Op(v) : v \in {x}} : TRUE
Once2(x, y, Op(_, _)) == CHOOSE r \in {Op(v, w) : v \in {x}, w \in {y}} : TRUE

\* --------------------------------------------------------------- sentinels

\* JavaScript null and undefined; neither is a sequence of characters
Null == <<"null-value">>
Undefined == <<"undefined-value">>
\* `x || ''`
orEmpty(x) == IF x = Undefined \/ x = Null THEN <<>> ELSE x

\* ------------------------------------------------------------- normalizers

MonthNames ==
  << <<"J","a","n","u","a","r","y">>,
     <<"F","e","b","r","u","a","r","y">>,
     <<"M","a","r","c","h">>,
     <<"A","p","r","i","l">>,
     <<"M","a","y">>,
     <<"J","u","n","e">>,
     <<"J","u","l","y">>,
     <<"A","u","g","u","s","t">>,
     <<"S","e","p","t","e","m","b","e","r">>,
     <<"O","c","t","o","b","e","r">>,
     <<"N","o","v","e","m","b","e","r">>,
     <<"D","e","c","e","m","b","e","r">> >>
undefinedText == <<"u","n","d","e","f","i","n","e","d">>

MonthNamesLower == [m \in 1..12 |-> toLowerCase(MonthNames[m])]

\* the alternative of (January|...|December), tried in order, that matches
\* case-insensitively at position i; 0 when none does
MonthAt(s, i) ==
  LET c == toLowerChar(s[i])
      hits == {m \in 1..12 :
                 /\ MonthNamesLower[m][1] = c
                 /\ i + Len(MonthNames[m]) - 1 <= Len(s)
                 /\ toLowerCase(SubSeq(s, i, i + Len(MonthNames[m]) - 1))
                      = MonthNamesLower[m]}
  IN IF hits = {} THEN 0 ELSE CHOOSE m \in hits : \A k \in hits : m <= k

\* length of the run of whitespace that starts at position j
SpaceRun(s, j) ==
  CHOOSE n \in 0..Len(s) :
    /\ \A k \in j..(j + n - 1) : k <= Len(s) /\ IsSpace(s[k])
    /\ (j + n > Len(s) \/ ~IsSpace(s[j + n]))

NoMatch == [ok |-> FALSE, month |-> <<>>, day |-> <<>>, year |-> <<>>]

\* \s+(\d{1,2}),\s*(\d{4}) at position j, after a month name found at i
matchRest(s, i, j) ==
  Once(j + SpaceRun(s, j), LAMBDA k :
    LET d == IF k + 2 <= Len(s) /\ IsDigit(s[k]) /\ IsDigit(s[k + 1]) /\ s[k + 2] = ","
             THEN 2
             ELSE IF k + 1 <= Len(s) /\ IsDigit(s[k]) /\ s[k + 1] = "," THEN 1
             ELSE 0
    IN IF k = j \/ d = 0 THEN NoMatch
       ELSE Once(k + d + 1 + SpaceRun(s, k + d + 1), LAMBDA y :
              IF y + 3 <= Len(s) /\ (\A q \in y..(y + 3) : IsDigit(s[q]))
              THEN [ok |-> TRUE, month |-> SubSeq(s, i, j - 1),
                    day |-> SubSeq(s, k, k + d - 1), year |-> SubSeq(s, y, y + 3)]
              ELSE NoMatch))

\* /(January|...|December)\s+(\d{1,2}),\s*(\d{4})/i anchored at position i
matchAt(s, i) ==
  Once(MonthAt(s, i), LAMBDA m :
    IF m = 0 THEN NoMatch ELSE matchRest(s, i, i + Len(MonthNames[m])))

\* months[match[1]]: the table is keyed by the capitalised names only
monthsLookup(text) ==
  IF \E m \in 1..12 : MonthNames[m] = text
  THEN padStart2(numToString(CHOOSE m \in 1..12 : MonthNames[m] = text))
  ELSE undefinedText

parseScraperDate(dateStr) ==
  LET starts == {i \in 1..Len(dateStr) : matchAt(dateStr, i).ok} IN
  IF starts = {} THEN Null
  ELSE Once(matchAt(dateStr, CHOOSE a \in starts : \A b \in starts : a <= b), LAMBDA mt :
         mt.year \o <<"-">> \o monthsLookup(mt.month) \o <<"-">> \o padStart2(mt.day))

normalizeShop(s) == substring0(stripNonAlnum(toUpperCase(s)), 15)

LeagueCup == <<"L","e","a","g","u","e"," ","C","u","p">>
LeagueChallenge == <<"L","e","a","g","u","e"," ","C","h","a","l","l","e","n","g","e">>

\* normalizeType of the cached and the uncached query routes
normalizeType(t) ==
  IF includes(toLowerCase(t), <<"c","u","p">>) THEN LeagueCup ELSE LeagueChallenge

\* normalizeType of the admin refresh route
normalizeType_refresh(t) ==
  IF includes(toLowerCase(t), <<"c","u","p">>) THEN LeagueCup
  ELSE IF includes(toLowerCase(t), <<"c","h","a","l","l","e","n","g","e">>) THEN LeagueChallenge
  ELSE t

\* great-circle distance in miles of two points of the same meridian, the
\* latitudes given in miles of arc: R * |lat2 - lat1| in radians
calculateDistance(lat1, lat2) == Abs(lat2 - lat1)

\* formatTime with noon counted to the morning
formatTime_noonAM(timeStr) ==
  IF timeStr = <<>> THEN <<>>
  ELSE IF includes(timeStr, <<"A","M">>) \/ includes(timeStr, <<"P","M">>) THEN timeStr
  ELSE
    LET h == IF Len(timeStr) >= 3 /\ IsDigit(timeStr[1]) /\ IsDigit(timeStr[2])
                  /\ timeStr[3] = ":" THEN 2
             ELSE IF Len(timeStr) >= 2 /\ IsDigit(timeStr[1]) /\ timeStr[2] = ":" THEN 1
             ELSE 0
        ok == h >= 1 /\ Len(timeStr) >= h + 3
                /\ IsDigit(timeStr[h + 2]) /\ IsDigit(timeStr[h + 3])
    IN IF ~ok THEN timeStr
       ELSE
         LET hour == parseDigits(SubSeq(timeStr, 1, h))
             minute == SubSeq(timeStr, h + 2, h + 3)
             period == IF hour > 12 THEN <<"P","M">> ELSE <<"A","M">>
             h1 == IF hour > 12 THEN hour - 12 ELSE hour
             h2 == IF h1 = 0 THEN 12 ELSE h1
         IN padStart2(numToString(h2)) \o <<":">> \o minute \o <<" ">> \o period

\* formatTime of the uncached route
formatTime(timeStr) ==
  IF timeStr = <<>> THEN <<>>
  ELSE IF includes(timeStr, <<"A","M">>) \/ includes(timeStr, <<"P","M">>) THEN timeStr
  ELSE
    LET h == IF Len(timeStr) >= 3 /\ IsDigit(timeStr[1]) /\ IsDigit(timeStr[2])
                  /\ timeStr[3] = ":" THEN 2
             ELSE IF Len(timeStr) >= 2 /\ IsDigit(timeStr[1]) /\ timeStr[2] = ":" THEN 1
             ELSE 0
        ok == h >= 1 /\ Len(timeStr) >= h + 3
                /\ IsDigit(timeStr[h + 2]) /\ IsDigit(timeStr[h + 3])
    IN IF ~ok THEN timeStr
       ELSE
         LET hour == parseDigits(SubSeq(timeStr, 1, h))
             minute == SubSeq(timeStr, h + 2, h + 3)
             period == IF hour >= 12 THEN <<"P","M">> ELSE <<"A","M">>
             h1 == IF hour > 12 THEN hour - 12 ELSE hour
             h2 == IF h1 = 0 THEN 12 ELSE h1
         IN padStart2(numToString(h2)) \o <<":">> \o minute \o <<" ">> \o period

\* whenParts[1]?.slice(0, 5) || '' of e.when?.split(' ') || []
whenTime(when) ==
  IF when = Undefined THEN <<>>
  ELSE
    LET sp == {i \in 1..Len(when) : when[i] = " "} IN
    IF sp = {} THEN <<>>
    ELSE
      LET a == CHOOSE i \in sp : \A k \in sp : i <= k
          rest == {i \in sp : i > a}
          b == IF rest = {} THEN Len(when) + 1
               ELSE CHOOSE i \in rest : \A k \in rest : i <= k
      IN substring0(SubSeq(when, a + 1, b - 1), 5)

\* isTCGEvent of the uncached route
isTCGEvent(name) ==
  LET u == toUpperCase(name)
      goish == \/ includes(u, <<"G","O"," ">>) \/ includes(u, <<"G","O","!">>)
               \/ startsWith(u, <<"G","O"," ">>) \/ includes(u, <<" ","G","O"," ">>)
               \/ includes(u, <<"P","O","K","E","M","O","N"," ","G","O">>)
               \/ includes(u, <<"L","E","A","U","G","E">>)
      vg == \/ includes(u, <<"V","G","C">>) \/ includes(u, <<"V","G"," ">>)
            \/ startsWith(u, <<"V","G"," ">>) \/ includes(u, <<" ","V","G"," ">>)
  IN IF goish /\ includes(u, <<"G","O">>) THEN FALSE
     ELSE IF vg THEN FALSE
     ELSE TRUE

\* new Date(d).getTime() of a YYYY-MM-DD string, as a number that grows with
\* the date; NaN for any other string
NaN == -1
dateTime(d) ==
  IF /\ Len(d) = 10 /\ d[5] = "-" /\ d[8] = "-"
     /\ \A i \in {1, 2, 3, 4, 6, 7, 9, 10} : IsDigit(d[i])
     /\ parseDigits(SubSeq(d, 6, 7)) \in 1..12
     /\ parseDigits(SubSeq(d, 9, 10)) \in 1..31
  THEN parseDigits(SubSeq(d, 1, 4)) * 10000 + parseDigits(SubSeq(d, 6, 7)) * 100
         + parseDigits(SubSeq(d, 9, 10))
  ELSE NaN

\* ----------------------------------------------------------------- records

\* an optional number that is absent (distance, latitude/longitude)
NoDist == -1
NoCoord == -1

SrcScraper == "pokemon.com"
SrcPokedata == "pokedata.ovh"

\* location config, in miles of arc north of the equator
DEFAULT_LAT == 2592
DEFAULT_RADIUS == 100
USER_LAT == 2592
MAX_RADIUS == 100
CACHE_TTL_MS == 3600000

\* the scraper's records (RawScraperRecord)
ScraperRec(type, name, date, time, shop) ==
  [type |-> type, name |-> name, date |-> date, time |-> time, shop |-> shop]
\* the third party's records (PokedataEvent)
PokeRec(type, name, date, when, shop, latitude) ==
  [type |-> type, name |-> name, date |-> date, when |-> when, shop |-> shop,
   latitude |-> latitude, distance |-> NoDist]

sJoeCup == ScraperRec(<<"L","e","a","g","u","e"," ","C","u","p">>, <<"C","u","p">>, <<"T","u","e",","," ","M","a","y"," ","3",","," ","2","0","2","6">>, <<"6",":","0","0"," ","P","M">>, <<"J","o","e","'","s">>)
sJoeOpen == ScraperRec(<<"T","o","u","r","n","a","m","e","n","t">>, <<"O","p","e","n">>, <<"M","a","y"," ","3",","," ","2","0","2","6">>, <<"1",":","0","0"," ","P","M">>, <<"J","o","e","'","s">>)
sAceBad == ScraperRec(<<"L","e","a","g","u","e"," ","C","h","a","l","l","e","n","g","e">>, <<"C","h","a","l">>, <<"s","o","m","e","t","i","m","e"," ","i","n"," ","M","a","y">>, <<>>, <<"A","c","e">>)
sAceChal == ScraperRec(<<"L","e","a","g","u","e"," ","C","h","a","l","l","e","n","g","e">>, <<"C","h","a","l">>, <<"M","a","y"," ","1","0",","," ","2","0","2","6">>, <<>>, <<"A","c","e">>)

pJoeCup == PokeRec(<<"L","e","a","g","u","e"," ","C","u","p">>, <<"C","u","p">>, <<"2","0","2","6","-","0","5","-","0","3">>, <<"2","0","2","6","-","0","5","-","0","3"," ","1","8",":","0","0",":","0","0">>, <<"J","O","E","S">>, DEFAULT_LAT + 8)
pJoeChal == PokeRec(<<"L","e","a","g","u","e"," ","C","h","a","l","l","e","n","g","e">>, <<"C","h","a","l">>, <<"2","0","2","6","-","0","5","-","0","3">>, <<"2","0","2","6","-","0","5","-","0","3"," ","1","3",":","0","0",":","0","0">>, <<"J","O","E","S">>, DEFAULT_LAT + 8)
pBoxChal == PokeRec(<<"L","e","a","g","u","e"," ","C","h","a","l","l","e","n","g","e">>, <<"C","h","a","l">>, <<"2","0","2","6","-","0","5","-","0","2">>, Undefined, <<"B","o","x">>, DEFAULT_LAT + 60)
pFarCup == PokeRec(<<"L","e","a","g","u","e"," ","C","u","p">>, <<"C","u","p">>, <<"2","0","2","6","-","0","5","-","1","0">>, Undefined, <<"F","a","r">>, DEFAULT_LAT + 120)
pNoGeo == PokeRec(<<"L","e","a","g","u","e"," ","C","u","p">>, <<"C","u","p">>, <<"2","0","2","6","-","0","5","-","1","0">>, Undefined, <<"W","e","b">>, NoCoord)

\* records the sources can deliver that are not well formed, or not of a
\* premier type: a record with no date field, with an empty date, with an
\* empty shop, with no shop field, with no shop field behind a date that does
\* not parse, and a prerelease
sNoDate == ScraperRec(<<"L","e","a","g","u","e"," ","C","u","p">>, <<"C","u","p">>, Undefined, <<>>, <<"A","c","e">>)
sEmptyDate == ScraperRec(<<"L","e","a","g","u","e"," ","C","u","p">>, <<"C","u","p">>, <<>>, <<>>, <<"A","c","e">>)
sEmptyShop == ScraperRec(<<"L","e","a","g","u","e"," ","C","u","p">>, <<"C","u","p">>, <<"M","a","y"," ","9",","," ","2","0","2","6">>, <<>>, <<>>)
sNoShop == ScraperRec(<<"L","e","a","g","u","e"," ","C","u","p">>, <<"C","u","p">>, <<"M","a","y"," ","9",","," ","2","0","2","6">>, <<>>, Undefined)
sBadNoShop == ScraperRec(<<"L","e","a","g","u","e"," ","C","u","p">>, <<"C","u","p">>, <<"s","o","m","e","t","i","m","e"," ","i","n"," ","M","a","y">>, <<>>, Undefined)
sPrerelease == ScraperRec(<<"P","r","e","r","e","l","e","a","s","e">>, <<"P","r","e">>, <<"M","a","y"," ","9",","," ","2","0","2","6">>, <<>>, <<"D","e","n">>)
\* a cup on the day of pBoxChal, farther away and still within MAX_RADIUS
pDenCup == PokeRec(<<"L","e","a","g","u","e"," ","C","u","p">>, <<"C","u","p">>, <<"2","0","2","6","-","0","5","-","0","2">>, Undefined, <<"D","e","n">>, DEFAULT_LAT + 90)

\* the batches a scraper run can deliver
Batches == { <<sJoeCup, sAceBad>>, <<sJoeOpen, sAceChal, sJoeOpen>> }
\* the arrays the third party can answer a category request with
CupBodies == { <<pJoeCup, pFarCup>>, <<pNoGeo>> }
ChallengeBodies == { <<pJoeChal, pBoxChal>> }

\* ------------------------------------------------------ third-party client

\* what one category request can come to: a network error (fetch rejects), a
\* non-success response whose body is an error page (json() rejects) or an
\* error object (spreading it throws), or a success with an array
NetErr == [kind |-> "neterr", ok |-> FALSE, body |-> <<>>]
HttpErrPage == [kind |-> "page", ok |-> FALSE, body |-> <<>>]
HttpErrObject == [kind |-> "object", ok |-> FALSE, body |-> <<>>]
OkArray(b) == [kind |-> "array", ok |-> TRUE, body |-> b]

CupOutcomes == {OkArray(b) : b \in CupBodies} \cup {NetErr, HttpErrPage}
ChallengeOutcomes == {OkArray(b) : b \in ChallengeBodies} \cup {NetErr, HttpErrObject}

\* fetchPokedataEvents of the cached query route and of the refresh route:
\* one try block around Promise.all of the two requests, the two json()
\* calls and the spread of both arrays
fetchPokedataEvents(cupsRes, challengesRes) ==
  IF cupsRes.kind = "neterr" \/ challengesRes.kind = "neterr" THEN <<>>
  ELSE IF cupsRes.kind = "page" \/ challengesRes.kind = "page" THEN <<>>
  ELSE IF cupsRes.kind = "object" \/ challengesRes.kind = "object" THEN <<>>
  ELSE cupsRes.body \o challengesRes.body

\* ------------------------------------------------------------------ merger

Dash == <<"-">>

\* "Filter pokedata by distance": e.distance is set on every record that has
\* coordinates, and the records within the radius are kept
pokeNearby(pokeEvents, userLat, maxRadius) ==
  LET withDist == [i \in 1..Len(pokeEvents) |->
                     IF pokeEvents[i].latitude = NoCoord THEN pokeEvents[i]
                     ELSE [pokeEvents[i] EXCEPT
                             !.distance = calculateDistance(userLat, pokeEvents[i].latitude)]]
  IN SelectSeq(withDist, LAMBDA e : e.latitude # NoCoord /\ e.distance <= maxRadius)

\* "Deduplicate pokedata": the first record of each date-shop key is kept
uniquePokeStep(prev, e) ==
  LET key == e.date \o Dash \o normalizeShop(e.shop) IN
  IF key \in prev.seen THEN prev
  ELSE [seen |-> prev.seen \cup {key}, out |-> Append(prev.out, e)]

uniquePokeEvents(nearby) ==
  LET F[i \in 0..Len(nearby)] ==
        IF i = 0 THEN [seen |-> {}, out |-> <<>>]
        ELSE Once(F[i - 1], LAMBDA prev : uniquePokeStep(prev, nearby[i]))
  IN F[Len(nearby)].out

\* scraperData?.events || []
eventsOf(scraperData) == IF scraperData.exists THEN scraperData.events ELSE <<>>

\* a field the parsed JSON record does not have, or has as null
absent(x) == x = Undefined \/ x = Null

\* the TypeError one turn of the scraper loop of buildCombinedData or of
\* buildCombinedCache ends with: dateStr.match on a record without a date, or,
\* once the date has parsed, t.toLowerCase or s.toUpperCase on a record
\* without a type or without a shop
scraperTurnThrows(e) ==
  \/ absent(e.date)
  \/ (absent(e.type) \/ absent(e.shop)) /\ parseScraperDate(e.date) # Null

\* forEach lets the first exception of a turn out to the caller
scraperLoopThrows(scraperEvents) ==
  \E i \in 1..Len(scraperEvents) : scraperTurnThrows(scraperEvents[i])

\* the scraper loop's turn with the record kept when its date has not parsed
combinedScraperStep_keep(prev, e, normalizedDate) ==
  LET eventType == normalizeType(e.type)
      date == IF normalizedDate = Null THEN e.date ELSE normalizedDate
      key == date \o Dash \o normalizeShop(orEmpty(e.shop)) \o Dash \o eventType
  IN IF key \in prev.seen THEN prev
     ELSE [seen |-> prev.seen \cup {key},
           out |-> Append(prev.out,
                     [source |-> SrcScraper, type |-> eventType,
                      date |-> date, time |-> orEmpty(e.time),
                      shop |-> e.shop, distance |-> NoDist])]

\* buildCombinedData, "Add scraper events first": one turn of the loop, on
\* seenEvents and combinedEvents so far
combinedScraperStep(prev, e, normalizedDate) ==
  LET eventType == normalizeType(e.type)
      key == normalizedDate \o Dash \o normalizeShop(e.shop) \o Dash \o eventType
  IN IF normalizedDate = Null THEN prev
     ELSE IF key \in prev.seen THEN prev
     ELSE [seen |-> prev.seen \cup {key},
           out |-> Append(prev.out,
                     [source |-> SrcScraper, type |-> eventType,
                      date |-> normalizedDate, time |-> orEmpty(e.time),
                      shop |-> e.shop, distance |-> NoDist])]

combinedScraperLoop(scraperEvents) ==
  LET F[i \in 0..Len(scraperEvents)] ==
        IF i = 0 THEN [seen |-> {}, out |-> <<>>]
        ELSE Once2(F[i - 1], parseScraperDate(scraperEvents[i].date),
                   LAMBDA prev, normalizedDate :
                     combinedScraperStep(prev, scraperEvents[i], normalizedDate))
  IN F[Len(scraperEvents)]

\* buildCombinedData, "Add pokedata events": one turn of the loop
combinedPokeStep(prev, e) ==
  LET eventType == normalizeType(e.type)
      key == e.date \o Dash \o normalizeShop(e.shop) \o Dash \o eventType
  IN IF key \in prev.seen THEN prev
     ELSE [seen |-> prev.seen \cup {key},
           out |-> Append(prev.out,
                     [source |-> SrcPokedata, type |-> eventType,
                      date |-> e.date, time |-> whenTime(e.when),
                      shop |-> e.shop, distance |-> e.distance])]

combinedPokeLoop(start, unique) ==
  LET F[i \in 0..Len(unique)] ==
        IF i = 0 THEN start
        ELSE Once(F[i - 1], LAMBDA prev : combinedPokeStep(prev, unique[i]))
  IN F[Len(unique)].out

\* the comparator of buildCombinedData's sort: by date, then by distance when
\* both events have one
combinedLt(a, b) ==
  LET da == dateTime(a.date)
      db == dateTime(b.date)
  IN IF da = NaN \/ db = NaN THEN FALSE
     ELSE IF da # db THEN da < db
     ELSE IF a.distance # NoDist /\ b.distance # NoDist THEN a.distance < b.distance
     ELSE FALSE

\* the comparator of buildCombinedCache's sort: by date only
refreshLt(a, b) ==
  LET da == dateTime(a.date)
      db == dateTime(b.date)
  IN IF da = NaN \/ db = NaN THEN FALSE ELSE da < db

\* the two comparators handed to sort
ByDateThenDistance == "date, then distance"
ByDate == "date"
comparatorLt(order, a, b) ==
  IF order = ByDateThenDistance THEN combinedLt(a, b) ELSE refreshLt(a, b)

\* Array.prototype.sort as V8 runs it on an array shorter than 32 elements:
\* the initial run is found (and reversed when strictly descending), then
\* every later element is placed by binary insertion.  comparatorLt is
\* "comparator(x, y) < 0"; a NaN result counts as 0.

\* the end of the run that starts at a[1]
countRunEnd(a, order) ==
  LET n == Len(a)
      desc == comparatorLt(order, a[2], a[1])
      RunEnd[i \in 2..n] ==
        IF i = n THEN n
        ELSE IF (IF desc THEN ~comparatorLt(order, a[i + 1], a[i]) ELSE comparatorLt(order, a[i + 1], a[i])) THEN i
        ELSE RunEnd[i + 1]
  IN RunEnd[2]

\* arr[1..k-1] is sorted: arr[k] is placed after the elements it is not less than
binaryInsert(arr, k, order) ==
  LET pivot == arr[k]
      Pos[lr \in (0..k) \X (0..k)] ==
        IF lr[1] >= lr[2] THEN lr[1]
        ELSE LET mid == lr[1] + ((lr[2] - lr[1]) \div 2) IN
             IF comparatorLt(order, pivot, arr[mid + 1]) THEN Pos[<<lr[1], mid>>]
             ELSE Pos[<<mid + 1, lr[2]>>]
  IN Once(Pos[<<0, k - 1>>], LAMBDA left :
       [i \in 1..Len(arr) |->
          IF i <= left THEN arr[i]
          ELSE IF i = left + 1 THEN pivot
          ELSE IF i <= k THEN arr[i - 1]
          ELSE arr[i]])

sortV8(a, order) ==
  IF Len(a) < 2 THEN a
  ELSE Once(countRunEnd(a, order), LAMBDA r :
         LET n == Len(a)
             a0 == IF comparatorLt(order, a[2], a[1])
                   THEN [i \in 1..n |-> IF i <= r THEN a[r + 1 - i] ELSE a[i]]
                   ELSE a
             Ins[k \in r..n] ==
               IF k = r THEN a0
               ELSE Once(Ins[k - 1], LAMBDA arr : binaryInsert(arr, k, order))
         IN Ins[n])

summaryOf(events) ==
  [totalEvents |-> Len(events),
   fromScraper |-> Len(SelectSeq(events, LAMBDA e : e.source = SrcScraper)),
   fromPokedata |-> Len(SelectSeq(events, LAMBDA e : e.source = SrcPokedata)),
   uniqueStores |-> Cardinality({events[i].shop : i \in 1..Len(events)})]

\* buildCombinedData, from the snapshot it read and the records its fetch gave
buildCombinedData(scraperData, pokeEvents, userLat, maxRadius) ==
  Once2(combinedScraperLoop(eventsOf(scraperData)),
        uniquePokeEvents(pokeNearby(pokeEvents, userLat, maxRadius)),
        LAMBDA afterScraper, unique :
          Once(combinedPokeLoop(afterScraper, unique), LAMBDA combinedEvents :
            Once(sortV8(combinedEvents, ByDateThenDistance), LAMBDA sorted :
              [events |-> sorted, summary |-> summaryOf(sorted)])))

\* buildCombinedCache, "Add scraper events first": one turn of the loop
refreshScraperStep(prev, e, normalizedDate) ==
  LET key == normalizedDate \o Dash \o normalizeShop(e.shop) \o Dash
               \o normalizeType_refresh(e.type)
  IN IF normalizedDate = Null THEN prev
     ELSE IF key \in prev.seen THEN prev
     ELSE [seen |-> prev.seen \cup {key},
           out |-> Append(prev.out,
                     [source |-> SrcScraper, type |-> normalizeType_refresh(e.type),
                      date |-> normalizedDate, time |-> orEmpty(e.time),
                      shop |-> e.shop, distance |-> NoDist,
                      latitude |-> NoCoord])]

refreshScraperLoop(scraperEvents) ==
  LET F[i \in 0..Len(scraperEvents)] ==
        IF i = 0 THEN [seen |-> {}, out |-> <<>>]
        ELSE Once2(F[i - 1], parseScraperDate(scraperEvents[i].date),
                   LAMBDA prev, normalizedDate :
                     refreshScraperStep(prev, scraperEvents[i], normalizedDate))
  IN F[Len(scraperEvents)]

\* buildCombinedCache, "Add pokedata events": one turn of the loop
refreshPokeStep(prev, e) ==
  LET key == e.date \o Dash \o normalizeShop(e.shop) \o Dash
               \o normalizeType_refresh(e.type)
  IN IF key \in prev.seen THEN prev
     ELSE [seen |-> prev.seen \cup {key},
           out |-> Append(prev.out,
                     [source |-> SrcPokedata, type |-> normalizeType_refresh(e.type),
                      date |-> e.date, time |-> whenTime(e.when),
                      shop |-> e.shop, distance |-> e.distance,
                      latitude |-> e.latitude])]

refreshPokeLoop(start, unique) ==
  LET F[i \in 0..Len(unique)] ==
        IF i = 0 THEN start
        ELSE Once(F[i - 1], LAMBDA prev : refreshPokeStep(prev, unique[i]))
  IN F[Len(unique)].out

NullTime == -1

\* buildCombinedCache, from the snapshot it read, the records its fetch gave,
\* the cache file as it is when the fetch has returned, and the clock then
buildCombinedCache(scraperData, pokeEvents, existingCache, clock) ==
  Once2(refreshScraperLoop(eventsOf(scraperData)),
        uniquePokeEvents(pokeNearby(pokeEvents, USER_LAT, MAX_RADIUS)),
        LAMBDA afterScraper, unique :
          Once(refreshPokeLoop(afterScraper, unique), LAMBDA combinedEvents :
            Once(sortV8(combinedEvents, ByDate), LAMBDA sorted :
              [lastUpdated |-> clock,
               lastScraperRun |-> IF existingCache.exists
                                  THEN existingCache.data.lastScraperRun
                                  ELSE NullTime,
               location |-> [lat |-> USER_LAT, radius |-> MAX_RADIUS],
               summary |-> summaryOf(sorted),
               events |-> sorted])))

\* ------------------------------------------------------------ cache library

NoFile == [exists |-> FALSE]
FileOf(data) == [exists |-> TRUE, data |-> data]

\* isCacheValid with the comparison made inclusive
isCacheValid_inclusive(cacheFile, clock) ==
  IF ~cacheFile.exists THEN FALSE
  ELSE (clock - cacheFile.data.lastUpdated) <= CACHE_TTL_MS

\* isCacheValid with the scraper's time-to-live of a day in the place of the
\* cache's hour
isCacheValid_day(cacheFile, clock) ==
  IF ~cacheFile.exists THEN FALSE
  ELSE (clock - cacheFile.data.lastUpdated) < 24 * CACHE_TTL_MS

\* isCacheValid, on the file readCache finds and the clock
isCacheValid(cacheFile, clock) ==
  IF ~cacheFile.exists THEN FALSE
  ELSE (clock - cacheFile.data.lastUpdated) < CACHE_TTL_MS

\* writeCache that adds the new events to those on file
writeCache_append(cacheFile, data, fsOk) ==
  IF ~fsOk THEN cacheFile
  ELSE IF cacheFile.exists
  THEN FileOf([data EXCEPT !.events = cacheFile.data.events \o data.events])
  ELSE FileOf(data)

\* writeCache whose failing write has replaced the file all the same
writeCache_torn(cacheFile, data, fsOk) == FileOf(data)

\* writeCache that keeps a document without third-party events off the file
writeCache_nonempty(cacheFile, data, fsOk) ==
  IF fsOk /\ \E k \in 1..Len(data.events) : data.events[k].source = SrcPokedata
  THEN FileOf(data)
  ELSE cacheFile

\* writeCache: the whole document replaces the file, or the write throws and
\* the error is logged and dropped
writeCache(cacheFile, data, fsOk) == IF fsOk THEN FileOf(data) ELSE cacheFile

\* writeScraperResults that saves nothing
writeScraperResults_skip(snapshotFile, data, fsOk) == snapshotFile

\* writeScraperResults: the same for the snapshot file
writeScraperResults(snapshotFile, data, fsOk) ==
  IF fsOk THEN [exists |-> TRUE, events |-> data.events] ELSE snapshotFile

\* ------------------------------------------------------------------- state

Procs == {1, 2}

VARIABLES
  now,       \* the wall clock, in milliseconds
  nodeEnv,   \* process.env.NODE_ENV
  snapshot,  \* scraper-results.json
  cache,     \* events-cache.json
  pc,        \* where each request handler in flight stands, with its locals
  resp,      \* the response the last step sent, if it sent one
  io         \* what the last step was and what it read, fetched and wrote

vars == <<now, nodeEnv, snapshot, cache, pc, resp, io>>

Idle == [at |-> "idle"]
NoResp == [kind |-> "none"]
NoWrite == [called |-> FALSE]
Wrote(data, fsOk) == [called |-> TRUE, data |-> data, fsOk |-> fsOk]
NoIo == [step |-> "clock", fetched |-> FALSE, write |-> NoWrite]

CRON_SECRET == <<"k","e","y">>
Bearer == <<"B","e","a","r","e","r"," ">>

Init ==
  /\ now = 0
  /\ nodeEnv = "production"
  /\ snapshot = NoFile
  /\ cache = NoFile
  /\ pc = [p \in Procs |-> Idle]
  /\ resp = NoResp
  /\ io = NoIo

\* -------------------------------------------------------------- the clock

\* Time passes between requests.  A handler that resumes after an await on a
\* settled promise does so in the same turn of the event loop, so no such
\* stretch of time passes while one is due to resume.
Wait ==
  /\ now \div WaitMs < MaxWaits
  /\ \A p \in Procs : pc[p].at # "r-built"
  /\ now' = now + WaitMs
  /\ resp' = NoResp
  /\ io' = NoIo
  /\ UNCHANGED <<nodeEnv, snapshot, cache, pc>>

\* The clock gains a millisecond while handlers are in flight.
Tick ==
  /\ now % WaitMs < MaxTicks
  /\ \E p \in Procs : pc[p] # Idle
  /\ now' = now + 1
  /\ resp' = NoResp
  /\ io' = NoIo
  /\ UNCHANGED <<nodeEnv, snapshot, cache, pc>>

\* ---------------------------------------- cached query: api/events/combined

\* the cache-hit branch with every event filtered by its distance, those
\* without coordinates left out
cacheHitEvents_strict(events, userLat, maxRadius) ==
  Once(SelectSeq(events, LAMBDA e :
         e.latitude # NoCoord /\ calculateDistance(userLat, e.latitude) <= maxRadius),
       LAMBDA kept :
         [i \in 1..Len(kept) |->
            [source |-> kept[i].source, type |-> normalizeType(kept[i].type),
             date |-> kept[i].date, time |-> kept[i].time, shop |-> kept[i].shop,
             distance |-> kept[i].distance]])

\* the cache-hit branch of POST: filter by the caller's distance, then map
cacheHitEvents(events, userLat, maxRadius) ==
  Once(SelectSeq(events, LAMBDA e :
         IF e.latitude # NoCoord
         THEN calculateDistance(userLat, e.latitude) <= maxRadius
         ELSE TRUE),
       LAMBDA kept :
         [i \in 1..Len(kept) |->
            [source |-> kept[i].source, type |-> normalizeType(kept[i].type),
             date |-> kept[i].date, time |-> kept[i].time, shop |-> kept[i].shop,
             distance |-> kept[i].distance]])

\* the document POST hands to writeCache after a rebuild
queryCacheData(built, existingCache, clock, userLat, maxRadius) ==
  [lastUpdated |-> clock,
   lastScraperRun |-> IF existingCache.exists THEN existingCache.data.lastScraperRun
                      ELSE NullTime,
   location |-> [lat |-> userLat, radius |-> maxRadius],
   summary |-> built.summary,
   events |-> [i \in 1..Len(built.events) |->
                 [source |-> built.events[i].source, type |-> built.events[i].type,
                  date |-> built.events[i].date, time |-> built.events[i].time,
                  shop |-> built.events[i].shop, distance |-> built.events[i].distance,
                  latitude |-> NoCoord]]]

\* parseFloat(latitude) || DEFAULT_LAT and parseInt(radius) || DEFAULT_RADIUS;
\* an absent field is 0 here
userLatOf(latitude) == IF latitude = 0 THEN DEFAULT_LAT ELSE latitude
maxRadiusOf(radius) == IF radius = 0 THEN DEFAULT_RADIUS ELSE radius

\* POST up to its first await on the network: the body is parsed, and either
\* the valid cache answers, or buildCombinedData reads the snapshot and sends
\* the two upstream requests
QueryPOST(p, latitude, radius) ==
  /\ pc[p] = Idle
  /\ IF isCacheValid(cache, now) /\ cache.exists
     THEN \E events \in {cacheHitEvents(cache.data.events, userLatOf(latitude),
                                        maxRadiusOf(radius))} :
          /\ resp' = [kind |-> "combined", status |-> 200,
                      userLat |-> userLatOf(latitude), maxRadius |-> maxRadiusOf(radius),
                      events |-> events, total |-> Len(events),
                      fromCache |-> TRUE, summary |-> cache.data.summary]
          /\ io' = [step |-> "QueryPOST", fetched |-> FALSE, write |-> NoWrite]
          /\ pc' = pc
     ELSE /\ pc' = [pc EXCEPT ![p] = [at |-> "q-fetch", userLat |-> userLatOf(latitude),
                                       maxRadius |-> maxRadiusOf(radius),
                                       scraperData |-> snapshot]]
          /\ resp' = NoResp
          /\ io' = [step |-> "QueryPOST", fetched |-> TRUE, write |-> NoWrite]
  /\ UNCHANGED <<now, nodeEnv, snapshot, cache>>

\* POST from the moment both upstream requests have settled: the merge, the
\* cache write and the response
QueryRebuilt(p, cupsRes, challengesRes, fsOk) ==
  /\ pc[p].at = "q-fetch"
  /\ \E pokeEvents \in {fetchPokedataEvents(cupsRes, challengesRes)} :
     IF scraperLoopThrows(eventsOf(pc[p].scraperData))
     THEN \* buildCombinedData rejects: POST's catch answers, nothing is written
          /\ cache' = cache
          /\ io' = [step |-> "QueryRebuilt", fetched |-> FALSE, write |-> NoWrite,
                    threw |-> TRUE,
                    scraperData |-> pc[p].scraperData, cupsRes |-> cupsRes,
                    challengesRes |-> challengesRes, pokeEvents |-> pokeEvents,
                    userLat |-> pc[p].userLat, maxRadius |-> pc[p].maxRadius,
                    events |-> <<>>]
          /\ resp' = [kind |-> "combined", status |-> 500, userLat |-> pc[p].userLat,
                      maxRadius |-> pc[p].maxRadius, events |-> <<>>]
     ELSE
     \E built \in {buildCombinedData(pc[p].scraperData, pokeEvents,
                                     pc[p].userLat, pc[p].maxRadius)} :
     \E data \in {queryCacheData(built, cache, now, pc[p].userLat, pc[p].maxRadius)} :
        /\ cache' = writeCache(cache, data, fsOk)
        /\ io' = [step |-> "QueryRebuilt", fetched |-> FALSE, write |-> Wrote(data, fsOk),
                  threw |-> FALSE,
                  scraperData |-> pc[p].scraperData, cupsRes |-> cupsRes,
                  challengesRes |-> challengesRes, pokeEvents |-> pokeEvents,
                  userLat |-> pc[p].userLat, maxRadius |-> pc[p].maxRadius,
                  events |-> built.events]
        /\ resp' = [kind |-> "combined", status |-> 200, userLat |-> pc[p].userLat,
                    maxRadius |-> pc[p].maxRadius, events |-> built.events,
                    total |-> Len(built.events), fromCache |-> FALSE,
                    summary |-> built.summary]
  /\ pc' = [pc EXCEPT ![p] = Idle]
  /\ UNCHANGED <<now, nodeEnv, snapshot>>

\* ------------------------------------------- admin refresh: api/events/refresh

\* String.prototype.replace(sub, ''): the first occurrence is removed
replaceFirst(s, sub) ==
  IF ~includes(s, sub) THEN s
  ELSE LET i == CHOOSE a \in 1..Len(s) :
                  /\ a + Len(sub) - 1 <= Len(s)
                  /\ SubSeq(s, a, a + Len(sub) - 1) = sub
                  /\ \A b \in 1..(a - 1) : SubSeq(s, b, b + Len(sub) - 1) # sub
       IN SubSeq(s, 1, i - 1) \o SubSeq(s, i + Len(sub), Len(s))

\* authHeader?.replace('Bearer ', '')
headerSecret(authHeader) ==
  IF authHeader = Null THEN Undefined ELSE replaceFirst(authHeader, Bearer)

\* the secret GET reads: url.searchParams.get('secret') || the header's
secretOfGET(authHeader, querySecret) ==
  IF querySecret # Null /\ querySecret # <<>> THEN querySecret
  ELSE headerSecret(authHeader)

\* the secret POST reads
secretOfPOST(authHeader, querySecret) == headerSecret(authHeader)

\* the guard with a request that presents nothing let through
unauthorized_lenient(secret, env) ==
  secret # CRON_SECRET /\ secret # Undefined /\ env # "development"

\* the guard of both handlers: TRUE when the request is turned away
unauthorized(secret, env) == secret # CRON_SECRET /\ env # "development"

Request(method, authHeader, querySecret) ==
  [method |-> method, authHeader |-> authHeader, querySecret |-> querySecret]

Rejected(method, authHeader, querySecret) ==
  /\ resp' = [kind |-> "refresh", status |-> 401]
  /\ io' = [step |-> "Refresh", fetched |-> FALSE, write |-> NoWrite,
            req |-> Request(method, authHeader, querySecret), saved |-> NoWrite]
  /\ UNCHANGED <<now, nodeEnv, snapshot, cache, pc>>

\* GET up to its await on the network
RefreshGET(p, authHeader, querySecret) ==
  /\ pc[p] = Idle
  /\ IF unauthorized(secretOfGET(authHeader, querySecret), nodeEnv)
     THEN Rejected("GET", authHeader, querySecret)
     ELSE /\ pc' = [pc EXCEPT ![p] = [at |-> "r-fetch", scraperData |-> snapshot,
                                       batch |-> FALSE]]
          /\ resp' = NoResp
          /\ io' = [step |-> "Refresh", fetched |-> TRUE, write |-> NoWrite,
                    req |-> Request("GET", authHeader, querySecret), saved |-> NoWrite]
          /\ UNCHANGED <<now, nodeEnv, snapshot, cache>>

\* POST up to its await on the network: a batch in the body is saved first
RefreshPOST(p, authHeader, querySecret, body, fsOk) ==
  /\ pc[p] = Idle
  /\ IF unauthorized(secretOfPOST(authHeader, querySecret), nodeEnv)
     THEN Rejected("POST", authHeader, querySecret)
     ELSE /\ snapshot' = IF body.hasEvents THEN writeScraperResults(snapshot, body, fsOk)
                         ELSE snapshot
          /\ pc' = [pc EXCEPT ![p] = [at |-> "r-fetch", scraperData |-> snapshot',
                                       batch |-> body.hasEvents]]
          /\ resp' = NoResp
          /\ io' = [step |-> "Refresh", fetched |-> TRUE, write |-> NoWrite,
                    req |-> Request("POST", authHeader, querySecret),
                    saved |-> IF body.hasEvents THEN Wrote(body.events, fsOk)
                              ELSE NoWrite]
          /\ UNCHANGED <<now, nodeEnv, cache>>

\* buildCombinedCache from the moment both upstream requests have settled to
\* its return: the merge, the read of the existing cache, the time stamp
RefreshBuilt(p, cupsRes, challengesRes) ==
  /\ pc[p].at = "r-fetch"
  /\ \E pokeEvents \in {fetchPokedataEvents(cupsRes, challengesRes)} :
     IF scraperLoopThrows(eventsOf(pc[p].scraperData))
     THEN \* buildCombinedCache rejects: the handler's catch answers
          /\ pc' = [pc EXCEPT ![p] = Idle]
          /\ io' = [step |-> "RefreshBuilt", fetched |-> FALSE, write |-> NoWrite,
                    threw |-> TRUE, batch |-> pc[p].batch,
                    scraperData |-> pc[p].scraperData, cupsRes |-> cupsRes,
                    challengesRes |-> challengesRes, pokeEvents |-> pokeEvents,
                    userLat |-> USER_LAT, maxRadius |-> MAX_RADIUS,
                    events |-> <<>>]
          /\ resp' = [kind |-> "refresh", status |-> 500]
     ELSE
     \E cacheData \in {buildCombinedCache(pc[p].scraperData, pokeEvents, cache, now)} :
        /\ pc' = [pc EXCEPT ![p] = [at |-> "r-built", cacheData |-> cacheData,
                                     batch |-> pc[p].batch]]
        /\ io' = [step |-> "RefreshBuilt", fetched |-> FALSE, write |-> NoWrite,
                  threw |-> FALSE, batch |-> pc[p].batch,
                  scraperData |-> pc[p].scraperData, cupsRes |-> cupsRes,
                  challengesRes |-> challengesRes, pokeEvents |-> pokeEvents,
                  userLat |-> USER_LAT, maxRadius |-> MAX_RADIUS,
                  events |-> cacheData.events]
        /\ resp' = NoResp
  /\ UNCHANGED <<now, nodeEnv, snapshot, cache>>

\* the handler resumed after `await buildCombinedCache()`: write and respond
RefreshWrite(p, fsOk) ==
  /\ pc[p].at = "r-built"
  /\ cache' = writeCache(cache, pc[p].cacheData, fsOk)
  /\ io' = [step |-> "RefreshWrite", fetched |-> FALSE,
            write |-> Wrote(pc[p].cacheData, fsOk), batch |-> pc[p].batch]
  /\ resp' = [kind |-> "refresh", status |-> 200,
              summary |-> pc[p].cacheData.summary, timestamp |-> now]
  /\ pc' = [pc EXCEPT ![p] = Idle]
  /\ UNCHANGED <<now, nodeEnv, snapshot>>

\* ------------------------------------------------ uncached query: api/events

\* the scraper loop of POST, one turn: the key holds the time as well
eventsScraperStep(prev, e, normalizedDate) ==
  LET eventType == normalizeType(e.type)
      key == normalizedDate \o Dash \o orEmpty(e.time) \o Dash
               \o normalizeShop(e.shop) \o Dash \o eventType
  IN IF normalizedDate = Null THEN prev
     ELSE IF ~isTCGEvent(orEmpty(e.name)) THEN prev
     ELSE IF key \in prev.seen THEN prev
     ELSE [seen |-> prev.seen \cup {key},
           out |-> Append(prev.out,
                     [source |-> SrcScraper, type |-> eventType,
                      date |-> normalizedDate, time |-> orEmpty(e.time),
                      shop |-> orEmpty(e.shop), distance |-> NoDist])]

eventsScraperLoop(scraperData) ==
  LET scraperEvents == eventsOf(scraperData)
      F[i \in 0..Len(scraperEvents)] ==
        IF i = 0 THEN [seen |-> {}, out |-> <<>>]
        ELSE Once2(F[i - 1], parseScraperDate(scraperEvents[i].date),
                   LAMBDA prev, normalizedDate :
                     eventsScraperStep(prev, scraperEvents[i], normalizedDate))
  IN F[Len(scraperEvents)]

\* the third-party loop of POST, one turn
eventsPokeStep(prev, e, latitude) ==
  LET time == formatTime(whenTime(e.when))
      key == e.date \o Dash \o time \o Dash \o normalizeShop(e.shop) \o Dash \o e.type
      distance == IF latitude # NoCoord /\ e.latitude # NoCoord
                  THEN calculateDistance(latitude, e.latitude) ELSE NoDist
  IN IF e.type # LeagueCup /\ e.type # LeagueChallenge THEN prev
     ELSE IF ~isTCGEvent(orEmpty(e.name)) THEN prev
     ELSE IF key \in prev.seen THEN prev
     ELSE [seen |-> prev.seen \cup {key},
           out |-> Append(prev.out,
                     [source |-> SrcPokedata, type |-> e.type, date |-> e.date,
                      time |-> time, shop |-> orEmpty(e.shop),
                      distance |-> distance])]

eventsPokeLoop(start, data, latitude) ==
  LET F[i \in 0..Len(data)] ==
        IF i = 0 THEN start
        ELSE Once(F[i - 1], LAMBDA prev : eventsPokeStep(prev, data[i], latitude))
  IN F[Len(data)].out

EventsError == [kind |-> "events", status |-> 200, failed |-> TRUE, events |-> <<>>]

\* the body of POST's try block and its catch, from the snapshot, the two
\* upstream responses and the caller's latitude (NoCoord when there is none)
\* and radius (0 when there is none)
eventsRoute(scraperData, cupsRes, challengesRes, latitude, radius) ==
  IF cupsRes.kind = "neterr" \/ challengesRes.kind = "neterr" THEN EventsError
  ELSE IF ~cupsRes.ok \/ ~challengesRes.ok THEN EventsError
  ELSE
    Once(eventsScraperLoop(scraperData), LAMBDA afterScraper :
      Once(eventsPokeLoop(afterScraper, cupsRes.body \o challengesRes.body, latitude),
           LAMBDA merged :
        Once(IF latitude # NoCoord
             THEN sortV8(SelectSeq(merged, LAMBDA e :
                           IF e.source = SrcScraper THEN TRUE
                           ELSE e.distance # NoDist
                                  /\ e.distance <= (IF radius = 0 THEN 50 ELSE radius)),
                         ByDateThenDistance)
             ELSE sortV8(merged, ByDate),
             LAMBDA events :
          [kind |-> "events", status |-> 200, failed |-> FALSE, events |-> events,
           total |-> Len(events),
           sources |-> [scraper |-> summaryOf(events).fromScraper,
                        pokedata |-> summaryOf(events).fromPokedata]])))

\* POST of the uncached route: it keeps nothing and writes nothing
EventsPOST(latitude, radius, cupsRes, challengesRes) ==
  /\ \E r \in {eventsRoute(snapshot, cupsRes, challengesRes, latitude, radius)} : resp' = r
  /\ io' = [step |-> "EventsPOST", fetched |-> TRUE, write |-> NoWrite,
            scraperData |-> snapshot, cupsRes |-> cupsRes,
            challengesRes |-> challengesRes, latitude |-> latitude, radius |-> radius]
  /\ UNCHANGED <<now, nodeEnv, snapshot, cache, pc>>

\* ------------------------------------------------------------ specifications

\* the requests and the upstream answers a run draws from
AllQueryArgs ==
  { [latitude |-> 0, radius |-> 0], [latitude |-> 0, radius |-> 50],
    [latitude |-> DEFAULT_LAT + 100, radius |-> 50] }
AllEventsArgs ==
  { [latitude |-> NoCoord, radius |-> 0], [latitude |-> DEFAULT_LAT, radius |-> 0],
    [latitude |-> DEFAULT_LAT, radius |-> 100] }
AuthHeaders == {Null, Bearer \o CRON_SECRET, Bearer \o <<"n","o">>}
QuerySecrets == {Null, CRON_SECRET}
AllCredentials == {[authHeader |-> a, querySecret |-> q] : a \in AuthHeaders, q \in QuerySecrets}
GoodCredentials == {[authHeader |-> Bearer \o CRON_SECRET, querySecret |-> Null]}
NoBody == [hasEvents |-> FALSE]
AllBodies == {NoBody} \cup {[hasEvents |-> TRUE, events |-> b] : b \in Batches}

\* a new request is handled in the first free slot of P
HasFree(P) == \E p \in P : pc[p] = Idle
FreeSlot(P) == CHOOSE p \in P : pc[p] = Idle /\ \A q \in P : pc[q] = Idle => p <= q

Query(P, args, cups, challenges, fsOks) ==
  \/ \E a \in args : HasFree(P) /\ QueryPOST(FreeSlot(P), a.latitude, a.radius)
  \/ \E p \in P, c \in cups, h \in challenges, ok \in fsOks : QueryRebuilt(p, c, h, ok)

Refresh(P, credentials, bodies, cups, challenges, fsOks) ==
  \/ \E k \in credentials :
       HasFree(P) /\ RefreshGET(FreeSlot(P), k.authHeader, k.querySecret)
  \/ \E k \in credentials, b \in bodies, ok \in fsOks :
       HasFree(P) /\ RefreshPOST(FreeSlot(P), k.authHeader, k.querySecret, b, ok)
  \/ \E p \in P, c \in cups, h \in challenges : RefreshBuilt(p, c, h)
  \/ \E p \in P, ok \in fsOks : RefreshWrite(p, ok)

Events(args, cups, challenges) ==
  \E a \in args, c \in cups, h \in challenges : EventsPOST(a.latitude, a.radius, c, h)

\* one request at a time, every query, batch and upstream answer
Next ==
  \/ Wait
  \/ Query({1}, AllQueryArgs, CupOutcomes, ChallengeOutcomes, BOOLEAN)
  \/ Refresh({1}, GoodCredentials, AllBodies, CupOutcomes, ChallengeOutcomes, BOOLEAN)

Spec == Init /\ [][Next]_vars

\* two requests in flight together, the clock running while they are
ConcQueryArgs == {[latitude |-> 0, radius |-> 0]}
ConcBodies == {NoBody, [hasEvents |-> TRUE, events |-> <<sJoeOpen>>]}
ConcCups == {OkArray(<<pNoGeo>>)}
ConcChallenges == {OkArray(<<pJoeChal>>)}

NextConc ==
  \/ Wait
  \/ Tick
  \/ Query(Procs, ConcQueryArgs, ConcCups, ConcChallenges, BOOLEAN)
  \/ Refresh(Procs, GoodCredentials, ConcBodies, ConcCups, ConcChallenges, BOOLEAN)

SpecConc == Init /\ [][NextConc]_vars

\* every credential in either mode of the server, and the uncached route
InitRoutes ==
  /\ now = 0
  /\ nodeEnv \in {"production", "development"}
  /\ snapshot = NoFile
  /\ cache = NoFile
  /\ pc = [p \in Procs |-> Idle]
  /\ resp = NoResp
  /\ io = NoIo

RouteQueryArgs == {[latitude |-> 0, radius |-> 0]}
RouteBodies == {NoBody, [hasEvents |-> TRUE, events |-> <<sJoeCup, sAceBad>>]}
RouteCups == {OkArray(<<pJoeCup, pFarCup>>), NetErr, HttpErrPage}
RouteChallenges == {OkArray(<<pJoeChal, pBoxChal>>), HttpErrObject}

NextRoutes ==
  \/ Wait
  \/ Query({1}, RouteQueryArgs, RouteCups, RouteChallenges, {TRUE})
  \/ Refresh({1}, AllCredentials, RouteBodies, {NetErr}, RouteChallenges, {TRUE})
  \/ Events(AllEventsArgs, RouteCups, RouteChallenges)

SpecRoutes == InitRoutes /\ [][NextRoutes]_vars

\* one request at a time, over batches that hold records which are not well
\* formed or not of a premier type, and an upstream answer whose records of
\* one day come farthest first
RecordBatches ==
  { <<sJoeCup, sNoDate>>, <<sEmptyShop, sAceBad, sAceChal>>, <<sNoShop>>,
    <<sEmptyDate, sBadNoShop, sPrerelease>> }
RecordBodies == {NoBody} \cup {[hasEvents |-> TRUE, events |-> b] : b \in RecordBatches}
RecordQueryArgs ==
  { [latitude |-> 0, radius |-> 0], [latitude |-> 0, radius |-> 50],
    [latitude |-> DEFAULT_LAT + 100, radius |-> 50] }
RecordCups == {OkArray(<<pDenCup>>)}
RecordChallenges == {OkArray(<<pJoeChal, pBoxChal>>), NetErr}

NextRecords ==
  \/ Wait
  \/ Query({1}, RecordQueryArgs, RecordCups, RecordChallenges, {TRUE})
  \/ Refresh({1}, GoodCredentials, RecordBodies, RecordCups, RecordChallenges, {TRUE})

SpecRecords == Init /\ [][NextRecords]_vars

\* the pure functions alone: a state holds one argument, a step applies the
\* function to it
MonthTexts ==
  UNION {{MonthNames[m], toLowerCase(MonthNames[m]), toUpperCase(MonthNames[m])} : m \in 1..12}
\* "[Tue, ]<month> <day>, 2026" for every month text, and texts without a date
DateStrings ==
  {p \o m \o <<" ">> \o d \o <<",", " ", "2", "0", "2", "6">> :
     p \in {<<>>, <<"T","u","e",","," ">>}, m \in MonthTexts, d \in {<<"3">>, <<"1","3">>}}
  \cup {<<>>, <<"s","o","m","e","t","i","m","e"," ","i","n"," ","M","a","y">>,
        <<"2","0","2","6","-","0","5","-","0","3">>,
        <<"M","a","y"," ","3"," ","2","0","2","6">>}
\* every HH:MM of the 24-hour clock, the empty text and texts with AM or PM
TimeStrings ==
  {padStart2(numToString(h)) \o <<":">> \o padStart2(numToString(m)) :
     h \in 0..23, m \in 0..59}
  \cup {<<>>, <<"6",":","0","0"," ","P","M">>, <<"0","6",":","0","0"," ","P","M">>,
        <<"1","0",":","3","0"," ","A","M">>, <<"1","2",":","0","0"," ","A","M">>}

InitFunctions ==
  /\ now = 0
  /\ nodeEnv = "production"
  /\ snapshot = NoFile
  /\ cache = NoFile
  /\ pc = [p \in Procs |-> Idle]
  /\ resp = NoResp
  /\ io \in {[step |-> "dateStr", fetched |-> FALSE, write |-> NoWrite, input |-> s] :
               s \in DateStrings}
            \cup {[step |-> "timeStr", fetched |-> FALSE, write |-> NoWrite, input |-> s] :
                    s \in TimeStrings}

ApplyParseScraperDate ==
  /\ io.step = "dateStr"
  /\ io' = [step |-> "parseScraperDate", fetched |-> FALSE, write |-> NoWrite,
            input |-> io.input, result |-> parseScraperDate(io.input)]
  /\ UNCHANGED <<now, nodeEnv, snapshot, cache, pc, resp>>

ApplyFormatTime ==
  /\ io.step = "timeStr"
  /\ io' = [step |-> "formatTime", fetched |-> FALSE, write |-> NoWrite,
            input |-> io.input, result |-> formatTime(io.input)]
  /\ UNCHANGED <<now, nodeEnv, snapshot, cache, pc, resp>>

\* formatTime applied to its own result
ApplyFormatTimeAgain ==
  /\ io.step = "formatTime"
  /\ io' = [step |-> "formatTime twice", fetched |-> FALSE, write |-> NoWrite,
            input |-> io.input, result |-> io.result, again |-> formatTime(io.result)]
  /\ UNCHANGED <<now, nodeEnv, snapshot, cache, pc, resp>>

NextFunctions ==
  \/ ApplyParseScraperDate
  \/ ApplyFormatTime
  \/ ApplyFormatTimeAgain

SpecFunctions == InitFunctions /\ [][NextFunctions]_vars

\* one request at a time, its handler resumed whenever it can go on by itself.
\* The clock runs, and a refresh that has built its document goes on to write
\* it; nothing makes the third party answer: a handler leaves its await on
\* the two upstream requests only in the step in which both have settled
NextLive ==
  \/ Wait
  \/ Query({1}, ConcQueryArgs, ConcCups, ConcChallenges, {TRUE})
  \/ Refresh({1}, GoodCredentials, ConcBodies, ConcCups, ConcChallenges, {TRUE})

SpecLive ==
  /\ Init
  /\ [][NextLive]_vars
  /\ WF_vars(Wait)
  /\ WF_vars(RefreshWrite(1, TRUE))

\* two requests in flight together, every file write succeeding
NextRace ==
  \/ Wait
  \/ Query(Procs, ConcQueryArgs, ConcCups, ConcChallenges, {TRUE})
  \/ Refresh(Procs, GoodCredentials, ConcBodies, ConcCups, ConcChallenges, {TRUE})

SpecRace == Init /\ [][NextRace]_vars

\* -------------------------------------------------------------- properties

\* the dedup key of the specification: ISO date, shop key, category
dedupKey(date, shop, type) == <<date, normalizeShop(shop), normalizeType(type)>>
keyOfEvent(e) == dedupKey(e.date, e.shop, e.type)
keysOf(events) == {keyOfEvent(events[k]) : k \in 1..Len(events)}
withKey(events, key) == {k \in 1..Len(events) : keyOfEvent(events[k]) = key}
noSharedKey(events) ==
  \A k \in 1..Len(events) : \A l \in 1..Len(events) :
    keyOfEvent(events[k]) = keyOfEvent(events[l]) => k = l

\* the step just taken was a rebuild's merge
Merged == io.step \in {"QueryRebuilt", "RefreshBuilt"}

\* C1: in a rebuild of either route, a scraper record with a parseable date and
\* an in-radius third-party record that agree on ISO date, shop key and
\* category leave exactly one event of that key in the merged output, and it
\* is the scraper's.
C1_ScraperWins ==
  Merged =>
    \A i \in 1..Len(eventsOf(io.scraperData)) : \A j \in 1..Len(io.pokeEvents) :
      LET s == eventsOf(io.scraperData)[i]
          t == io.pokeEvents[j]
          d == parseScraperDate(s.date)
      IN (/\ d # Null
          /\ t.latitude # NoCoord
          /\ calculateDistance(io.userLat, t.latitude) <= io.maxRadius
          /\ dedupKey(d, s.shop, s.type) = dedupKey(t.date, t.shop, t.type))
         => /\ Cardinality(withKey(io.events, dedupKey(d, s.shop, s.type))) = 1
            /\ \A k \in withKey(io.events, dedupKey(d, s.shop, s.type)) :
                 io.events[k].source = SrcScraper

\* C2: no two events of a merged collection share a dedup key: neither in the
\* document on file, nor in a response of the cached query.
C2_NoSharedKey ==
  /\ cache.exists => noSharedKey(cache.data.events)
  /\ resp.kind = "combined" => noSharedKey(resp.events)

\* where the third party says an event is: the latitude of its record
AllPokeRecords == {pJoeCup, pJoeChal, pBoxChal, pFarCup, pNoGeo}
latitudeOfEvent(e) ==
  LET r == CHOOSE t \in AllPokeRecords :
             t.date = e.date /\ t.shop = e.shop /\ normalizeType(t.type) = normalizeType(e.type)
  IN r.latitude

\* C3: every third-party event in a response of the cached query, rebuilt or
\* served from the cache, lies within the caller's radius of the caller's
\* origin.
C3_WithinCallerRadius ==
  resp.kind = "combined" =>
    \A k \in 1..Len(resp.events) :
      resp.events[k].source = SrcPokedata =>
        calculateDistance(resp.userLat, latitudeOfEvent(resp.events[k])) <= resp.maxRadius

\* a readable document less than an hour old is on file
Fresh == cache.exists /\ now - cache.data.lastUpdated < CACHE_TTL_MS

\* the handler that was waiting for the third party has answered
Answered(at) == \E p \in Procs : pc[p].at = at /\ pc'[p] = Idle

C4_Gate ==
  /\ (io'.step = "QueryPOST" /\ Fresh) =>
       (resp'.kind = "combined" /\ resp'.fromCache /\ ~io'.fetched /\ pc' = pc)
  /\ (io'.step = "QueryPOST" /\ ~Fresh) =>
       (/\ resp' = NoResp
        /\ io'.fetched
        /\ \E p \in Procs : pc[p] = Idle /\ pc'[p].at = "q-fetch")
  /\ io'.step = "QueryRebuilt" =>
       (/\ Answered("q-fetch")
        /\ resp'.kind = "combined" /\ ~resp'.fromCache
        /\ io'.write.called)

Expired == cache.exists /\ now > cache.data.lastUpdated + CACHE_TTL_MS

\* C5: right after a write that succeeded the cache is valid, and it is not
\* valid at any time later than one hour after its document's lastUpdated.
C5_Validity ==
  /\ (io.write.called /\ io.write.fsOk) => isCacheValid(cache, now)
  /\ Expired => ~isCacheValid(cache, now)

\* C5 as stated: the cache is valid right after every write
C5_ValidAfterWrite ==
  /\ io.write.called => isCacheValid(cache, now)
  /\ Expired => ~isCacheValid(cache, now)

\* a document written earlier is more than an hour old and no longer valid
C5_Expired == Expired /\ ~isCacheValid(cache, now) /\ io.step = "QueryPOST"

\* C6: the lastUpdated of the document on file never decreases.
C6_Monotone ==
  [][ (cache.exists /\ cache'.exists) =>
        cache'.data.lastUpdated >= cache.data.lastUpdated ]_vars

\* C7: every rebuild in flight does its own fetch and its own write, and the
\* file changes only by a write that puts one rebuild's whole document in
\* place of the old one.
C7_WholeOverwrite ==
  [][ /\ \A p \in Procs :
           (pc[p] = Idle /\ pc'[p].at \in {"q-fetch", "r-fetch"}) => io'.fetched
      /\ \A p \in Procs :
           (pc[p].at \in {"q-fetch", "r-built"} /\ pc'[p] = Idle) => io'.write.called
      /\ \A p \in Procs :
           (pc[p].at = "r-built" /\ pc'[p] = Idle) => io'.write.data = pc[p].cacheData
      /\ (io'.write.called /\ io'.write.fsOk) => cache' = FileOf(io'.write.data)
      /\ cache' # cache => (io'.write.called /\ io'.write.fsOk)
    ]_vars

\* a rebuild's write has replaced the file while another rebuild holds the
\* document it is about to write
C7_Overwritten ==
  /\ io.write.called /\ io.write.fsOk
  /\ cache = FileOf(io.write.data)
  /\ \E p \in Procs : pc[p].at = "r-built" /\ pc[p].cacheData # cache.data

\* what a refresh request presents where its handler looks for the secret
presentsSecret(req) ==
  \/ req.authHeader = Bearer \o CRON_SECRET
  \/ req.method = "GET" /\ req.querySecret = CRON_SECRET

\* C8: outside development mode, a refresh request that presents no secret or
\* a wrong one is answered 401, issues no fetch, and leaves the cache, the
\* snapshot and every handler as they were.
C8_Unauthorized ==
  [][ (io'.step = "Refresh" /\ nodeEnv # "development" /\ ~presentsSecret(io'.req)) =>
        (/\ resp'.kind = "refresh" /\ resp'.status = 401
         /\ ~io'.fetched
         /\ cache' = cache /\ snapshot' = snapshot /\ pc' = pc)
    ]_vars

\* a request was turned away with a document and a snapshot on file
C8_Rejected ==
  /\ io.step = "Refresh" /\ ~presentsSecret(io.req)
  /\ resp.kind = "refresh" /\ resp.status = 401
  /\ cache.exists /\ snapshot.exists

\* C9: when one category request fails and the other succeeds, the fetch
\* returns exactly the records of the category that succeeded.
C9_CategoryIsolation ==
  Merged =>
    /\ (io.cupsRes.ok /\ ~io.challengesRes.ok) => io.pokeEvents = io.cupsRes.body
    /\ (~io.cupsRes.ok /\ io.challengesRes.ok) => io.pokeEvents = io.challengesRes.body

\* C10: when the third party is unavailable, a query of either route is
\* still answered with every snapshot event that has a parseable date, and
\* with no third-party event.
C10_StillAnswered ==
  (io.step \in {"QueryRebuilt", "EventsPOST"} /\ (~io.cupsRes.ok \/ ~io.challengesRes.ok)) =>
    /\ \A i \in 1..Len(eventsOf(io.scraperData)) :
         LET s == eventsOf(io.scraperData)[i]
             d == parseScraperDate(s.date)
         IN d # Null =>
              \E k \in 1..Len(resp.events) :
                /\ resp.events[k].source = SrcScraper
                /\ keyOfEvent(resp.events[k]) = dedupKey(d, s.shop, s.type)
    /\ \A k \in 1..Len(resp.events) : resp.events[k].source # SrcPokedata

\* C11: every response of the cached query is a success that carries an
\* events array, whatever the snapshot, the cache and the third party hold.
C11_AlwaysSuccess == resp.kind = "combined" => resp.status = 200

\* the scraper records whose date is a string without "<MonthName> <day>,
\* <year>" in it: "sometime in May" and the empty string
UnparseableRecords == {sAceBad, sEmptyDate, sBadNoShop}
hasUnparseable(scraperData) ==
  \E i \in 1..Len(eventsOf(scraperData)) : eventsOf(scraperData)[i] \in UnparseableRecords
withoutUnparseable(scraperData) ==
  IF scraperData.exists
  THEN [exists |-> TRUE,
        events |-> SelectSeq(scraperData.events, LAMBDA e : e \notin UnparseableRecords)]
  ELSE scraperData

\* the merge of either rebuild, from a snapshot and the records of the fetch
mergeOf(step, scraperData, pokeEvents, userLat, maxRadius) ==
  IF step = "QueryRebuilt"
  THEN buildCombinedData(scraperData, pokeEvents, userLat, maxRadius).events
  ELSE buildCombinedCache(scraperData, pokeEvents, NoFile, 0).events

\* C12: a scraper record whose date string does not hold the pattern raises
\* no exception and leaves no event, and the merge is the merge of the
\* snapshot without it.
C12_UnparseableDropped ==
  (Merged /\ hasUnparseable(io.scraperData)) =>
    /\ io.threw = scraperLoopThrows(eventsOf(withoutUnparseable(io.scraperData)))
    /\ Len(SelectSeq(io.events, LAMBDA e : e.source = SrcScraper))
         <= Len(eventsOf(withoutUnparseable(io.scraperData)))
    /\ ~io.threw =>
         io.events = mergeOf(io.step, withoutUnparseable(io.scraperData), io.pokeEvents,
                             io.userLat, io.maxRadius)

\* a rebuild merged a snapshot that holds such a record next to one whose
\* date parses, and the latter is in the output
C12_DroppedBesideKept ==
  /\ Merged /\ hasUnparseable(io.scraperData) /\ ~io.threw
  /\ \E k \in 1..Len(io.events) : io.events[k].source = SrcScraper

\* C13: a scraper record with an empty or missing shop or date makes no
\* rebuild fail and leaves no event in the merged output.
C13_MalformedDropped ==
  Merged =>
    /\ ~io.threw
    /\ \A k \in 1..Len(io.events) :
         io.events[k].source = SrcScraper =>
           ~absent(io.events[k].shop) /\ io.events[k].shop # <<>>

\* the step just taken was a query's rebuild whose cache write failed
WriteFailed == io.step = "QueryRebuilt" /\ io.write.called /\ ~io.write.fsOk

\* C14: when the cache write of a query's rebuild fails, the query is still
\* answered with the events it has just merged and fromCache=false, the file
\* stays as it was, and it is not valid, so that a query that comes next
\* fetches and rebuilds again.
C14_FailedWriteSwallowed ==
  [][ /\ WriteFailed' =>
           /\ resp'.kind = "combined" /\ resp'.status = 200 /\ ~resp'.fromCache
           /\ resp'.events = mergeOf("QueryRebuilt", io'.scraperData, io'.pokeEvents,
                                     io'.userLat, io'.maxRadius)
           /\ cache' = cache
           /\ ~isCacheValid(cache', now')
      /\ (WriteFailed /\ io'.step = "QueryPOST") =>
           (io'.fetched /\ resp' = NoResp /\ cache' = cache)
    ]_vars

\* a rebuild with events to serve could not write, and the document of an
\* earlier rebuild, which differs from it, is still the one on file
C14_PreviousKept ==
  /\ WriteFailed
  /\ Len(resp.events) > 0
  /\ cache.exists /\ cache.data.events # io.write.data.events

\* ascending dates, and ascending distances among the events of one date that
\* carry a distance
inOrder(events) ==
  \A k \in 1..Len(events) : \A l \in (k + 1)..Len(events) :
    /\ dateTime(events[k].date) <= dateTime(events[l].date)
    /\ (/\ events[k].date = events[l].date
        /\ events[k].distance # NoDist /\ events[l].distance # NoDist)
         => events[k].distance <= events[l].distance

\* C15: the events of the document on file and of every response of the
\* cached query are in ascending date order, and within one date those that
\* carry a distance are in ascending distance order.
C15_InOrder ==
  /\ cache.exists => inOrder(cache.data.events)
  /\ resp.kind = "combined" => inOrder(resp.events)

\* C16: when an authorized refresh that carried a batch has written the cache,
\* the lastScraperRun of the document on file is the time of a scraper run:
\* it is not null and not later than the clock.
C16_ScraperRunStamped ==
  (io.step = "RefreshWrite" /\ io.batch /\ io.write.fsOk) =>
    /\ cache.exists
    /\ cache.data.lastScraperRun # NullTime
    /\ cache.data.lastScraperRun <= now

\* what every authorized refresh does, whatever the age of the cache: it
\* saves the batch of its body, if it has one, before anything else, reads the
\* snapshot as it is then, fetches, merges the two, hands the document to the
\* cache store and answers with the document's summary
C17_Rebuilds ==
  /\ (io'.step = "Refresh" /\ presentsSecret(io'.req)) =>
       /\ io'.fetched /\ resp' = NoResp /\ cache' = cache
       /\ \E p \in Procs :
            /\ pc[p] = Idle /\ pc'[p].at = "r-fetch"
            /\ pc'[p].scraperData = snapshot'
            /\ pc'[p].batch = io'.saved.called
       /\ ~io'.saved.called => snapshot' = snapshot
  /\ io'.step = "RefreshBuilt" =>
       \E p \in Procs :
         /\ pc[p].at = "r-fetch" /\ pc'[p].at = "r-built"
         /\ io'.scraperData = pc[p].scraperData
         /\ pc'[p].cacheData.events = io'.events
         /\ pc'[p].cacheData.summary = summaryOf(io'.events)
         /\ pc'[p].cacheData.lastUpdated = now
  /\ io'.step = "RefreshWrite" =>
       \E p \in Procs :
         /\ pc[p].at = "r-built" /\ pc'[p] = Idle
         /\ io'.write.called /\ io'.write.data = pc[p].cacheData
         /\ resp'.kind = "refresh" /\ resp'.status = 200
         /\ resp'.summary = pc[p].cacheData.summary

carriesSecret(req) ==
  req.authHeader = Bearer \o CRON_SECRET \/ req.querySecret = CRON_SECRET

\* C18: outside development mode a refresh request, GET or POST, is turned
\* away with 401 exactly when it carries the secret neither in the header nor
\* in the query parameter.
C18_AcceptedIff ==
  (io.step = "Refresh" /\ nodeEnv # "development") =>
    ((resp.kind = "refresh" /\ resp.status = 401) <=> ~carriesSecret(io.req))

\* the step just taken answered a query from the cache
CacheHit == io.step = "QueryPOST" /\ resp.kind = "combined" /\ resp.fromCache

\* C19: whatever the origin and the radius of a query, every scraper record
\* whose date parses has its event in the response of a rebuild, and every
\* scraper event of the document on file is in the response of a cache hit.
C19_ScraperNeverFiltered ==
  /\ (io.step = "QueryRebuilt" /\ ~io.threw) =>
       \A i \in 1..Len(eventsOf(io.scraperData)) :
         LET s == eventsOf(io.scraperData)[i]
             d == parseScraperDate(s.date)
         IN d # Null =>
              \E k \in 1..Len(resp.events) :
                /\ resp.events[k].source = SrcScraper
                /\ keyOfEvent(resp.events[k]) = dedupKey(d, s.shop, s.type)
  /\ CacheHit =>
       \A j \in 1..Len(cache.data.events) :
         cache.data.events[j].source = SrcScraper =>
           \E k \in 1..Len(resp.events) :
             /\ resp.events[k].source = SrcScraper
             /\ resp.events[k].date = cache.data.events[j].date
             /\ resp.events[k].shop = cache.data.events[j].shop
             /\ resp.events[k].time = cache.data.events[j].time
             /\ resp.events[k].type = normalizeType(cache.data.events[j].type)

\* a cache hit whose filter took third-party events out and left a scraper
\* event in
C19_FilteredAroundScraper ==
  /\ CacheHit
  /\ Len(resp.events) < Len(cache.data.events)
  /\ \E k \in 1..Len(resp.events) : resp.events[k].source = SrcScraper

\* the type text names a premier event: a Cup or a Challenge
premierType(t) ==
  \/ includes(toLowerCase(t), <<"c","u","p">>)
  \/ includes(toLowerCase(t), <<"c","h","a","l","l","e","n","g","e">>)

\* the event was made from the scraper record s
madeFrom(e, s) ==
  e.source = SrcScraper /\ e.date = parseScraperDate(s.date) /\ e.shop = s.shop

\* C20: a record whose type text is not a premier Cup or Challenge type leaves
\* no event in the merged collection of a rebuild.
C20_NonPremierRejected ==
  (Merged /\ ~io.threw) =>
    \A i \in 1..Len(eventsOf(io.scraperData)) :
      ~premierType(eventsOf(io.scraperData)[i].type) =>
        \A k \in 1..Len(io.events) : ~madeFrom(io.events[k], eventsOf(io.scraperData)[i])

\* one of the two categories
isCategory(t) == t = LeagueCup \/ t = LeagueChallenge

\* C21: every event of the document on file and of every response of the
\* cached query has the category League Cup or League Challenge.
C21_CupOrChallenge ==
  /\ cache.exists =>
       \A k \in 1..Len(cache.data.events) : isCategory(cache.data.events[k].type)
  /\ (resp.kind = "combined" /\ resp.status = 200) =>
       \A k \in 1..Len(resp.events) : isCategory(resp.events[k].type)

\* YYYY-MM-DD with MM in 01..12
isIsoDate(d) ==
  /\ Len(d) = 10
  /\ \A i \in {1, 2, 3, 4, 6, 7, 9, 10} : IsDigit(d[i])
  /\ d[5] = "-" /\ d[8] = "-"
  /\ parseDigits(SubSeq(d, 6, 7)) \in 1..12

\* the number of the month that the text names, in whatever letter case
monthNamed(dateStr) ==
  CHOOSE m \in 1..12 : includes(toLowerCase(dateStr), toLowerCase(MonthNames[m]))

\* C22: parseScraperDate returns null or a date of the form YYYY-MM-DD whose
\* MM is the two-digit number of the month that the text names, whatever the
\* letter case of the name.
C22_IsoOrNull ==
  io.step = "parseScraperDate" =>
    \/ io.result = Null
    \/ /\ isIsoDate(io.result)
       /\ parseDigits(SubSeq(io.result, 6, 7)) = monthNamed(io.input)

\* a time of the 24-hour clock, HH:MM with HH in 00..23 and MM in 00..59
isHHMM(s) ==
  /\ Len(s) = 5
  /\ \A i \in {1, 2, 4, 5} : IsDigit(s[i])
  /\ s[3] = ":"
  /\ parseDigits(SubSeq(s, 1, 2)) <= 23
  /\ parseDigits(SubSeq(s, 4, 5)) <= 59

\* the same instant on the 12-hour clock
twelveHour(s) ==
  LET hour == parseDigits(SubSeq(s, 1, 2)) IN
  padStart2(numToString(((hour + 11) % 12) + 1)) \o <<":">> \o SubSeq(s, 4, 5)
    \o (IF hour < 12 THEN <<" ","A","M">> ELSE <<" ","P","M">>)

hasPeriod(s) == includes(s, <<"A","M">>) \/ includes(s, <<"P","M">>)

\* C24: formatTime turns every HH:MM of the 24-hour clock into the same
\* instant of the 12-hour clock, the hour zero-padded in 01..12 with the right
\* AM or PM; it returns a text that holds AM or PM unchanged and the empty
\* text empty; applied to its own result it changes nothing.
C24_TwelveHourClock ==
  /\ io.step = "formatTime" =>
       /\ isHHMM(io.input) => io.result = twelveHour(io.input)
       /\ (io.input # <<>> /\ hasPeriod(io.input)) => io.result = io.input
       /\ io.input = <<>> => io.result = <<>>
  /\ io.step = "formatTime twice" => io.again = io.result

\* half past noon was formatted, and formatted again
C24_HalfPastNoon ==
  /\ io.step = "formatTime twice"
  /\ io.input = <<"1","2",":","3","0">>
  /\ io.again = <<"1","2",":","3","0"," ","P","M">>

\* C23: a handler that has sent its upstream requests comes to its response,
\* whether or not the third party ever answers.
C23_RebuildTerminates ==
  \A p \in {1} : (pc[p].at \in {"q-fetch", "r-fetch"}) ~> (pc[p] = Idle)

\* C25: in a rebuild, every third-party record that has coordinates within
\* the radius has an event of its dedup key in the merged output: it is left
\* out only for an event of the same date, shop key and category.
C25_OnlyDuplicatesDropped ==
  (Merged /\ ~io.threw) =>
    \A j \in 1..Len(io.pokeEvents) :
      LET t == io.pokeEvents[j] IN
      (t.latitude # NoCoord /\ calculateDistance(io.userLat, t.latitude) <= io.maxRadius)
        => dedupKey(t.date, t.shop, t.type) \in keysOf(io.events)

\* C26: in the uncached route, a scraper record with a parseable date and a
\* third-party record that agree on ISO date, shop key and category leave
\* exactly one event of that key in the response, the scraper's, whatever
\* their time fields hold.
C26_OneEventWhateverTheTime ==
  (io.step = "EventsPOST" /\ ~resp.failed) =>
    \A i \in 1..Len(eventsOf(io.scraperData)) :
      \A t \in {io.cupsRes.body[j] : j \in 1..Len(io.cupsRes.body)}
                 \cup {io.challengesRes.body[j] : j \in 1..Len(io.challengesRes.body)} :
        LET s == eventsOf(io.scraperData)[i]
            d == parseScraperDate(s.date)
        IN (/\ d # Null
            /\ isTCGEvent(orEmpty(s.name)) /\ isTCGEvent(orEmpty(t.name))
            /\ dedupKey(d, s.shop, s.type) = dedupKey(t.date, t.shop, t.type))
           => /\ Cardinality(withKey(resp.events, dedupKey(d, s.shop, s.type))) = 1
              /\ \A k \in withKey(resp.events, dedupKey(d, s.shop, s.type)) :
                   resp.events[k].source = SrcScraper

\* the events of a collection as the specification tells them apart
keyedBySource(events) == {<<keyOfEvent(events[k]), events[k].source>> : k \in 1..Len(events)}

\* what a rebuild from the snapshot on file answers to the same query, for
\* each answer the third party may have given
freshRebuilds(userLat, maxRadius) ==
  {buildCombinedData(snapshot, fetchPokedataEvents(c, h), userLat, maxRadius).events :
     c \in RecordCups, h \in RecordChallenges}

\* C27: a query answered from the cache returns the set of events, by dedup
\* key and source, that a rebuild from the same snapshot and the same
\* third-party answer returns to that query.
C27_HitEqualsRebuild ==
  (CacheHit /\ ~scraperLoopThrows(eventsOf(snapshot))) =>
    \E fresh \in freshRebuilds(resp.userLat, resp.maxRadius) :
      keyedBySource(resp.events) = keyedBySource(fresh)

\* how many events of the collection come from the source
countOf(events, source) == Cardinality({k \in 1..Len(events) : events[k].source = source})

\* C28: in every response of the cached query, rebuilt or served from the
\* cache, the summary describes the events returned: totalEvents and total are
\* the length of events, fromScraper and fromPokedata the counts per source.
C28_SummaryDescribesEvents ==
  (resp.kind = "combined" /\ resp.status = 200) =>
    /\ resp.total = Len(resp.events)
    /\ resp.summary.totalEvents = Len(resp.events)
    /\ resp.summary.fromScraper = countOf(resp.events, SrcScraper)
    /\ resp.summary.fromPokedata = countOf(resp.events, SrcPokedata)

\* one of the two upstream requests of the rebuild failed
fetchFailed(step) == ~step.cupsRes.ok \/ ~step.challengesRes.ok

scraperOnly(events) == \A k \in 1..Len(events) : events[k].source = SrcScraper

\* a query met a scraper-only document less than an hour old: it is answered
\* from the cache, without a fetch and without a third-party event
C29_ServedFromCache ==
  (io'.step = "QueryPOST" /\ Fresh /\ scraperOnly(cache.data.events)) =>
    /\ resp'.kind = "combined" /\ resp'.fromCache /\ ~io'.fetched
    /\ scraperOnly(resp'.events)

derivedFrom(events, scraperData) ==
  \A i \in 1..Len(eventsOf(scraperData)) :
    parseScraperDate(eventsOf(scraperData)[i].date) # Null =>
      \E k \in 1..Len(events) : madeFrom(events[k], eventsOf(scraperData)[i])

\* a refresh that has saved its batch is still on its way to its response
batchInFlight ==
  \E p \in Procs : pc[p].at \in {"r-fetch", "r-built"} /\ pc[p].batch

\* C30: once the refresh that saved the batch on file has completed, every
\* query that arrives is answered with the events of that batch, whatever
\* rebuild was in flight while the refresh ran.
C30_LaterQueriesSeeBatch ==
  (CacheHit /\ snapshot.exists /\ ~batchInFlight) => derivedFrom(resp.events, snapshot)

====
